---- MODULE Spec2Model ----
(***************************************************************************)
(* Model of spn-sqlite.                                                    *)
(*                                                                         *)
(* Spec        the dispatch layer: DBDispatcher (job routing, retry on     *)
(*             contention, graceful shutdown), DBWorker (the handle with   *)
(*             one inflight job), the worker runtime's receive loop, and   *)
(*             the part of the Node.js event loop the dispatcher relies on *)
(*             (setImmediate callbacks run in batches in the check phase;  *)
(*             messages, timers and exit events are delivered between      *)
(*             batches).                                                   *)
(* SpecFault   the running dispatcher with runtimes that crash ('error'    *)
(*             event of the handle) and with stray messages.               *)
(* SpecLive    the dispatcher in normal operation, with the fairness of    *)
(*             the event loop.                                             *)
(* SpecCompose the query methods on bounded fragments and values:          *)
(*             SQLCompiler.compile, the submit of the job, and the runtime *)
(*             handler with its split of the compiled sql.                 *)
(* SpecTx      DB.transaction calls over the dispatcher, each runtime on   *)
(*             its own ':memory:' connection; callbacks may throw and      *)
(*             statements may fail.                                        *)
(* SpecCounter the same with the counter callback only and no failure.     *)
(* SpecQuery   SpecCounter with plain queries submitted concurrently.      *)
(* SpecClose   the dispatcher of a DB whose close() is called repeatedly.  *)
(* SpecCtor    the DB constructor on bounded options and hosts.            *)
(* SpecExec    DB.exec on bounded fragments and values, the dispatcher and *)
(*             the exec handlers of the two runtimes.                      *)
(* SpecReplies several exec calls of one statement: the messages the       *)
(*             runtimes receive and the replies they post.                 *)
(*                                                                         *)
(* A runtime handles a job in its own thread and the main thread receives  *)
(* the reply later: these are two steps, with the posted reply in outbox   *)
(* between them.                                                           *)
(***************************************************************************)
EXTENDS Integers, Sequences, FiniteSets, TLC

\* ---------------------------------------------------------------- bounds
MaxJobs == 3          \* accepted submits per behaviour
MaxRetries == 1       \* "database is locked" replies per behaviour
MaxShutdowns == 1     \* shutdown() calls per behaviour
MaxFragments == 3     \* fragments given to the composer
MaxFragLen == 1       \* characters per fragment
MaxValues == 2        \* values given to the composer
MaxCalls == 2         \* transaction() calls per behaviour
MaxTxJobs == 12       \* accepted submits per behaviour of a DB running transactions
MaxCloses == 2        \* close() calls per behaviour of the close specification
MaxCloseJobs == 2     \* jobs per behaviour of the close specification
MaxExecs == 1         \* accepted exec() calls per behaviour of the exec specification
MaxExecFragments == 2 \* fragments exec() is called with
MaxRuntimeJobs == 2   \* accepted exec() calls per behaviour of the runtime specification
MaxParallelism == 3   \* largest os.availableParallelism() of a host
MaxWorkers == 3       \* largest workers option passed to the constructor
MaxQueries == 1       \* queries the application makes outside the transactions
MaxFaultJobs == 2     \* accepted submits per behaviour of the fault specification

\* ------------------------------------------------------------- constants
DBDefaultWorkers == 1       \* DB constructor: workers = 1
DispatcherDefaultSize == 2  \* DBDispatcher constructor: size = 2
NativeDefaultWorkers == 1
FileDefaultWorkers == 2
NoWorker == 0         \* Array.prototype.find found nothing (undefined)
NoJob == 0            \* DBWorker.#inflight === null
maxQueue == 1         \* constructor option maxQueue of the dispatcher under study
LockedMsg == "database is locked"
OtherMsg == "SQLITE_ERROR"
NoError == "none"
CrashMsg == "worker crashed"   \* the message of an uncaught error other than the contention sentinel

VARIABLES
  size,                    \* DBDispatcher.size: number of handles
  queue,                   \* DBDispatcher.#queue: sequence of entries
  nextJobId,               \* DBDispatcher.#nextJobId
  closed,                  \* DBDispatcher.#closed
  workerShutdownComplete,  \* DBDispatcher.#workerShutdownComplete
  busy,                    \* DBWorker.#busy, per handle
  inflight,                \* DBWorker.#inflight.id, per handle (NoJob = null)
  wClosed,                 \* DBWorker.#closed, per handle
  awaiting,                \* the #outsource call suspended at await worker.run, per handle
  rtAlive,                 \* the worker thread of the handle has not been terminated
  mailbox,                 \* job messages posted to the runtime, not yet handled
  immNow,                  \* setImmediate callbacks of the check phase being run
  immNext,                 \* setImmediate callbacks scheduled for the next check phase
  terms,                   \* DBWorker.terminate() calls whose thread has not exited yet
  shut,                    \* per shutdown() call: what its Promise.all still waits for
  awaiter,                 \* state of the promise returned by each accepted submit
  submitResult,            \* outcome of the latest submit call
  assigned,                \* history: ids given to accepted submits, in order
  handed,                  \* history: ids passed to DBWorker.run, in order
  everLocked,              \* history: ids whose reply carried the contention sentinel
  lockedAt,                \* history: per id waiting for a retry, nextJobId when its contention reply arrived
  nLocked,                 \* history: contention replies produced so far
  settledBy,               \* history: per awaiter, what settled it (the id of the reply, or "crash")
  atShutdown,              \* history: awaiters of the jobs in flight when shutdown() was called
  strings,                 \* the fragments a query method was called with
  values,                  \* the values a query method was called with
  compiled,                \* what SQLCompiler.compile returned or threw for them
  split_sql,               \* WorkerRuntime.#handle: split_sql for the compiled sql
  opts,                    \* the options the DB constructor is called with, and os.availableParallelism()
  built,                   \* whether the constructor has run, and what it threw
  executed,                \* the sql text the runtime passed to the engine's exec
  received,                \* history: the job messages the runtimes received, in order
  posted,                  \* history: the replies the runtimes posted, in order
  strays,                  \* history: the last stray message delivered ("idle": no job was inflight, "mismatch": another id)
  rejected,                \* history: what the 'error' handlers rejected the promise of run() with
  outbox,                  \* per runtime: the reply it posted that the main thread has not received yet
  inTransaction,           \* DB.#inTransaction
  pc,                      \* per caller: the await its transaction() call (or the setup code) is suspended at
  inTx,                    \* DB.transaction: const inTx, per call
  branch,                  \* DB.transaction: the branch the call took ("nested" or "outer")
  waitOn,                  \* per caller: the awaiter of the job it awaits (0 = none)
  current,                 \* the callback's local: the counter value it read
  held,                    \* DB.transaction, catch (err): err, per call
  outcome,                 \* what the promise returned by transaction() settled with, per call
  fnCalls,                 \* history: number of times the callback of the call was invoked
  fnEnd,                   \* what the callback's promise settled with (const result, or the error)
  jobs,                    \* the job payload of every accepted submit, in order
  db,                      \* the SQLite database of each runtime's connection
  results,                 \* msg.result of the reply to each job
  ranOn,                   \* history: the handle whose runtime handled each job last
  openBy,                  \* history: per connection, the caller whose beginTransaction opened its transaction
  ranIn                    \* history: per job, the caller whose transaction was open on the connection that executed it

dispVars == <<size, queue, nextJobId, closed, workerShutdownComplete,
          busy, inflight, wClosed, awaiting, rtAlive, mailbox,
          immNow, immNext, terms, shut, awaiter, submitResult,
          assigned, handed, everLocked, lockedAt, nLocked,
          settledBy, atShutdown>>

\* the constructor call, what the runtimes did with exec jobs
rtVars == <<opts, built, executed, received, posted, strays, rejected, outbox>>

ioVars == <<strings, values, compiled, split_sql, rtVars>>

txVars == <<inTransaction, pc, inTx, branch, waitOn, current, held, outcome,
            fnCalls, fnEnd, jobs, db, results, ranOn, openBy, ranIn>>

vars == <<dispVars, ioVars, txVars>>

Workers == 1..size
\* the behaviour is cut after as many accepted submits as Init provides awaiters
JobLimit == Len(awaiter)
JobIds == 1..(JobLimit + 1)
Awaiters == 1..JobLimit
NoEntry == [id |-> NoJob, aw |-> 0]

\* no reply is on its way from a runtime
NoReply == [id |-> NoJob, error |-> NoError]

\* entry.resolve / entry.reject: a promise settles once, later calls are no-ops
Settle(f, a, v) == IF f[a] = "pending" THEN [f EXCEPT ![a] = v] ELSE f

\* a reply without a result (msg.result undefined), a row that does not exist
NoResult == -1

\* no transaction() call: the connection has no open transaction
NoCaller == -1

\* a promise that has not settled, has resolved with v, has rejected with e
NoOutcome == [kind |-> "none", value |-> NoResult, error |-> NoError]
Returned(v) == [kind |-> "returned", value |-> v, error |-> NoError]
Threw(e) == [kind |-> "threw", value |-> NoResult, error |-> e]

\* a ':memory:' database as the runtime opens it: no table, no transaction
\* (value: the value of the first row of counter, more: those of the rows
\* added after it)
EmptyDb == [table |-> FALSE, value |-> NoResult, more |-> <<>>, inTx |-> FALSE,
            snap |-> [table |-> FALSE, value |-> NoResult, more |-> <<>>]]

\* no query method has been called, no job has reached a runtime
NotCompiled == [by |-> "none", error |-> NoError, form |-> "none", sql |-> <<>>, values |-> <<>>]
NotSplit == <<>>

\* no exec job has reached the engine
NotExecuted == <<"-">>

\* the workers option: left out, null, or a number
Omitted == [given |-> "omitted", n |-> 0]
Null == [given |-> "null", n |-> 0]
Number(n) == [given |-> "number", n |-> n]

\* ------------------------------------------------------------------ Init
\* the dispatcher, its handles and runtimes after construction, for a
\* behaviour of at most n accepted submits
\* the Dispatcher of size handles, none of which has been given a job
InitPool(n) ==
  /\ queue = <<>>
  /\ nextJobId = 1
  /\ closed = FALSE
  /\ workerShutdownComplete = FALSE
  /\ busy = [w \in Workers |-> FALSE]
  /\ inflight = [w \in Workers |-> NoJob]
  /\ wClosed = [w \in Workers |-> FALSE]
  /\ awaiting = [w \in Workers |-> NoEntry]
  /\ rtAlive = [w \in Workers |-> TRUE]
  /\ mailbox = [w \in Workers |-> <<>>]
  /\ immNow = <<>>
  /\ immNext = <<>>
  /\ terms = {}
  /\ shut = <<>>
  /\ awaiter = [a \in 1..n |-> "none"]
  /\ submitResult = "none"
  /\ assigned = <<>>
  /\ handed = <<>>
  /\ everLocked = {}
  /\ lockedAt = [j \in 1..(n + 1) |-> 0]
  /\ nLocked = 0
  /\ settledBy = [a \in 1..n |-> NoJob]
  /\ atShutdown = {}

InitDispatcherFor(n) ==
  /\ size \in {DBDefaultWorkers, DispatcherDefaultSize}
  /\ InitPool(n)

InitDispatcher == InitDispatcherFor(MaxJobs)

\* no query method has been called
InitIO ==
  /\ strings = <<>>
  /\ values = <<>>
  /\ compiled = NotCompiled
  /\ split_sql = NotSplit

\* the DB was constructed with the default driver and filename and with
\* workers: size; no runtime has received a job
InitRuntime ==
  /\ opts = [driver |-> "node:sqlite", filename |-> ":memory:",
             workers |-> Number(size), parallelism |-> size]
  /\ built = "yes"
  /\ executed = NotExecuted
  /\ received = <<>>
  /\ posted = <<>>
  /\ strays = <<>>
  /\ rejected = {}
  /\ outbox = [w \in Workers |-> NoReply]

\* the DB object after construction (n jobs, pool size as in size); every
\* connection is on its own empty ':memory:' database
InitDB(n) ==
  /\ inTransaction = FALSE
  /\ pc = [c \in 0..MaxCalls |-> "idle"]
  /\ inTx = [c \in 0..MaxCalls |-> FALSE]
  /\ branch = [c \in 0..MaxCalls |-> "none"]
  /\ waitOn = [c \in 0..MaxCalls |-> 0]
  /\ current = [c \in 0..MaxCalls |-> NoResult]
  /\ held = [c \in 0..MaxCalls |-> NoError]
  /\ outcome = [c \in 0..MaxCalls |-> NoOutcome]
  /\ fnCalls = [c \in 0..MaxCalls |-> 0]
  /\ fnEnd = [c \in 0..MaxCalls |-> NoOutcome]
  /\ jobs = <<>>
  /\ db = [w \in Workers |-> EmptyDb]
  /\ results = [a \in 1..n |-> NoResult]
  /\ ranOn = [a \in 1..n |-> NoWorker]
  /\ openBy = [w \in Workers |-> NoCaller]
  /\ ranIn = [a \in 1..n |-> NoCaller]

Init ==
  /\ InitDispatcher
  /\ InitIO
  /\ InitRuntime
  /\ InitDB(MaxJobs)

\* ------------------------------------------------------------ dispatcher
\* faulty variant of getIdleWorker: looks for a handle that is not closed instead of
\* one that is not busy
getIdleWorkerNotClosed ==
  IF \E w \in Workers : ~wClosed[w]
  THEN CHOOSE w \in Workers : ~wClosed[w] /\ \A v \in Workers : v < w => wClosed[v]
  ELSE NoWorker

\* #getIdleWorker: this.#workers.find(w => !w.busy)
getIdleWorker ==
  IF \E w \in Workers : ~busy[w]
  THEN CHOOSE w \in Workers : ~busy[w] /\ \A v \in Workers : v < w => busy[v]
  ELSE NoWorker

\* faulty variant of NoOpenWorkers: satisfied as soon as some handle is closed
SomeWorkerClosed(wc) == \E w \in Workers : wc[w]

\* #outsource, closed branch: this.#workers.filter(w => !w.closed).length === 0
NoOpenWorkers(wc) == \A w \in Workers : wc[w]

\* faulty variant of OutsourceSeesClosed: #outsource does not look at #closed
OutsourceIgnoresClosed == FALSE

\* #outsource: if (this.#closed)
OutsourceSeesClosed == closed

\* faulty variant of IsContention: compares with the SQLite error code instead of the
\* message
IsContentionByCode(msg) == msg = "SQLITE_BUSY"

\* faulty variant of IsContention: every error sends the job back to the queue
IsContentionAny(msg) == TRUE

\* #outsource, catch: err.message === "database is locked"
IsContention(msg) == msg = LockedMsg

\* faulty variant of NextId: the counter is read but not incremented
NextIdStuck(n) == n

\* submit: this.#nextJobId++ leaves the counter one higher
NextId(n) == n + 1

\* the tail of #outsource: if the queue is not empty, shift its head and
\* schedule #outsource for it with setImmediate
OutsourceTail(q) ==
  IF Len(q) > 0
  THEN /\ queue' = Tail(q)
       /\ immNext' = Append(immNext, Head(q))
  ELSE /\ queue' = q
       /\ immNext' = immNext

\* #outsource(entry), up to its first await or its return.  aw0 is the
\* awaiter state the caller leaves behind.
Outsource(entry, aw0) ==
  LET worker == getIdleWorker IN
  IF worker # NoWorker
  THEN IF OutsourceSeesClosed
       THEN \* closed branch: terminate the idle handle, drop the entry
            /\ IF ~wClosed[worker]
               THEN /\ terms' = terms \cup {[w |-> worker, from |-> "outsource", call |-> 0]}
                    /\ rtAlive' = [rtAlive EXCEPT ![worker] = FALSE]
                    /\ UNCHANGED workerShutdownComplete
               ELSE /\ workerShutdownComplete' =
                         (workerShutdownComplete \/ NoOpenWorkers(wClosed))
                    /\ UNCHANGED <<terms, rtAlive>>
            /\ awaiter' = aw0
            /\ UNCHANGED <<queue, immNext, busy, inflight, awaiting, mailbox,
                           handed, lockedAt>>
       ELSE IF busy[worker]
            THEN \* DBWorker.run throws 'Worker is already busy'; caught, entry rejected
                 /\ awaiter' = Settle(aw0, entry.aw, "Worker is already busy")
                 /\ handed' = Append(handed, entry.id)
                 /\ OutsourceTail(queue)
                 /\ UNCHANGED <<busy, inflight, awaiting, mailbox, lockedAt,
                                terms, rtAlive, workerShutdownComplete>>
            ELSE \* DBWorker.run: busy, inflight, postMessage; #outsource awaits
                 /\ busy' = [busy EXCEPT ![worker] = TRUE]
                 /\ inflight' = [inflight EXCEPT ![worker] = entry.id]
                 /\ mailbox' = [mailbox EXCEPT ![worker] = Append(@, entry.id)]
                 /\ awaiting' = [awaiting EXCEPT ![worker] = entry]
                 /\ handed' = Append(handed, entry.id)
                 /\ awaiter' = aw0
                 /\ lockedAt' = [lockedAt EXCEPT ![entry.id] = 0]
                 /\ UNCHANGED <<queue, immNext, terms, rtAlive, workerShutdownComplete>>
  ELSE \* no idle handle: push, then the tail shifts the head into setImmediate
       /\ OutsourceTail(Append(queue, entry))
       /\ awaiter' = aw0
       /\ UNCHANGED <<busy, inflight, awaiting, mailbox, handed, lockedAt,
                      terms, rtAlive, workerShutdownComplete>>

\* submit(job)
Submit ==
  IF closed
  THEN /\ submitResult' = "DBDispatcher is closed"
       /\ UNCHANGED <<size, queue, nextJobId, closed, workerShutdownComplete,
                      busy, inflight, wClosed, awaiting, rtAlive, mailbox,
                      immNow, immNext, terms, shut, awaiter,
                      assigned, handed, everLocked, lockedAt, nLocked,
                      settledBy, atShutdown>>
  ELSE IF Len(queue) >= maxQueue
  THEN /\ submitResult' = "DB queue is full"
       /\ UNCHANGED <<size, queue, nextJobId, closed, workerShutdownComplete,
                      busy, inflight, wClosed, awaiting, rtAlive, mailbox,
                      immNow, immNext, terms, shut, awaiter,
                      assigned, handed, everLocked, lockedAt, nLocked,
                      settledBy, atShutdown>>
  ELSE /\ Len(assigned) < JobLimit
       /\ LET id == nextJobId
              entry == [id |-> id, aw |-> Len(assigned) + 1]
          IN /\ nextJobId' = NextId(nextJobId)
             /\ assigned' = Append(assigned, id)
             /\ Outsource(entry, [awaiter EXCEPT ![entry.aw] = "pending"])
       /\ submitResult' = "accepted"
       /\ UNCHANGED <<size, closed, wClosed, immNow, shut, everLocked, nLocked,
                      settledBy, atShutdown>>

\* a setImmediate callback scheduled by #outsource runs: #outsource(next_entry)
RunImmediate ==
  /\ immNow # <<>>
  /\ immNow' = Tail(immNow)
  /\ Outsource(Head(immNow), awaiter)
  /\ UNCHANGED <<size, nextJobId, closed, wClosed, shut,
                 submitResult, assigned, everLocked, nLocked,
                 settledBy, atShutdown>>

\* the event loop enters its check phase: the callbacks scheduled so far form
\* the batch that runs now; callbacks they schedule wait for the next phase
EnterCheckPhase ==
  /\ immNow = <<>>
  /\ immNext # <<>>
  /\ immNow' = immNext
  /\ immNext' = <<>>
  /\ UNCHANGED <<size, queue, nextJobId, closed, workerShutdownComplete,
                 busy, inflight, wClosed, awaiting, rtAlive, mailbox,
                 terms, shut, awaiter, submitResult,
                 assigned, handed, everLocked, lockedAt, nLocked,
                 settledBy, atShutdown>>

\* ---------------------------------------------------------------- runtime
\* faulty variant of RuntimeReply: the reply does not carry the job's id
RuntimeReplyNoId(job, err) == [id |-> NoJob, error |-> err]

\* the runtime's message handler: handle the job, post exactly one reply
\* carrying job.id, with a result or a serialized error
RuntimeReply(job, err) == [id |-> job, error |-> err]

\* ----------------------------------------------------------------- handle
\* faulty variant of IsStray: the handler only checks that a job is inflight
IsStrayOnlyIdle(w, msg) == inflight[w] = NoJob

\* faulty variant of IsStray: the 'message' handler ignores every message
IsStrayAlways(w, msg) == TRUE

\* DBWorker 'message' handler: if (!this.#inflight || this.#inflight.id !== msg.id)
IsStray(w, msg) == inflight[w] = NoJob \/ inflight[w] # msg.id

\* DBWorker 'message' handler, followed in the same turn by the continuation
\* of the #outsource call that awaited worker.run (resolve, reject or unshift,
\* then the tail)
OnMessage(w, msg) ==
  LET entry == awaiting[w] IN
  IF IsStray(w, msg)
  THEN \* stray or late message: ignored
       UNCHANGED <<queue, immNext, busy, inflight, awaiting, awaiter,
                   everLocked, lockedAt, settledBy>>
  ELSE /\ busy' = [busy EXCEPT ![w] = FALSE]
       /\ inflight' = [inflight EXCEPT ![w] = NoJob]
       /\ awaiting' = [awaiting EXCEPT ![w] = NoEntry]
       /\ IF msg.error = NoError
          THEN /\ awaiter' = Settle(awaiter, entry.aw, "resolved")
               /\ OutsourceTail(queue)
               /\ UNCHANGED <<everLocked, lockedAt>>
          ELSE IF IsContention(msg.error)
          THEN /\ OutsourceTail(<<entry>> \o queue)
               /\ everLocked' = everLocked \cup {entry.id}
               /\ lockedAt' = [lockedAt EXCEPT ![entry.id] = nextJobId]
               /\ UNCHANGED awaiter
          ELSE /\ awaiter' = Settle(awaiter, entry.aw, msg.error)
               /\ OutsourceTail(queue)
               /\ UNCHANGED <<everLocked, lockedAt>>
       /\ settledBy' = [a \in Awaiters |->
                          IF awaiter'[a] # awaiter[a] THEN msg.id ELSE settledBy[a]]

\* The runtime of handle w, in its own thread: the 'message' handler takes the
\* job at the head of the mailbox, handles it with the outcome err and posts
\* its reply, which is then on its way to the main thread
Post(w, err) ==
  /\ rtAlive[w]
  /\ mailbox[w] # <<>>
  /\ err = LockedMsg => nLocked < MaxRetries
  /\ nLocked' = IF err = LockedMsg THEN nLocked + 1 ELSE nLocked
  /\ mailbox' = [mailbox EXCEPT ![w] = Tail(@)]
  /\ outbox' = [outbox EXCEPT ![w] = RuntimeReply(Head(mailbox[w]), err)]
  /\ UNCHANGED <<size, queue, nextJobId, closed, workerShutdownComplete,
                 busy, inflight, wClosed, awaiting, rtAlive,
                 immNow, immNext, terms, shut, awaiter, submitResult,
                 assigned, handed, everLocked, lockedAt, settledBy, atShutdown>>

\* the event loop of the main thread, between check phases, delivers the
\* reply a runtime posted to its handle
Deliver(w) ==
  /\ immNow = <<>>
  /\ outbox[w] # NoReply
  /\ outbox' = [outbox EXCEPT ![w] = NoReply]
  /\ OnMessage(w, outbox[w])
  /\ UNCHANGED <<size, nextJobId, closed, workerShutdownComplete,
                 wClosed, rtAlive, mailbox, immNow, terms, shut, submitResult,
                 assigned, handed, nLocked, atShutdown>>

\* what a step of the dispatcher or of the handles leaves alone outside them
Others == <<txVars, strings, values, compiled, split_sql,
            opts, built, executed, received, posted, strays, rejected>>

\* --------------------------------------------------------------- shutdown
\* shutdown, the map callback: if (!w.busy) return w.terminate()
ShutdownTerminatesNone(w) == FALSE
ShutdownTerminatesAll(w) == TRUE

\* shutdown, the map callback: if (!w.busy) return w.terminate()
ShutdownTerminates(w) == ~busy[w]

\* shutdown(): close, reject what the queue array holds, terminate the idle
\* handles, poll #workerShutdownComplete for each busy one
shutdown ==
  /\ closed' = TRUE
  /\ awaiter' = [a \in Awaiters |->
                   IF (\E i \in 1..Len(queue) : queue[i].aw = a) /\ awaiter[a] = "pending"
                   THEN "DBDispatcher shutting down" ELSE awaiter[a]]
  /\ queue' = <<>>
  /\ shut' = Append(shut, [w \in Workers |->
                             IF ShutdownTerminates(w) THEN "terminate" ELSE "poll"])
  /\ terms' = terms \cup {[w |-> w, from |-> "shutdown", call |-> Len(shut) + 1] :
                            w \in {v \in Workers : ShutdownTerminates(v)}}
  /\ rtAlive' = [w \in Workers |-> rtAlive[w] /\ ~ShutdownTerminates(w)]
  /\ atShutdown' = atShutdown \cup {awaiting[w].aw : w \in {v \in Workers : awaiting[v] # NoEntry}}
  /\ UNCHANGED <<size, nextJobId, workerShutdownComplete,
                 busy, inflight, wClosed, awaiting, mailbox,
                 immNow, immNext, submitResult,
                 assigned, handed, everLocked, lockedAt, nLocked, settledBy>>

\* a call of shutdown(), as long as the behaviour has calls left
Shutdown ==
  /\ Len(shut) < MaxShutdowns
  /\ shutdown

\* the thread of a handle has exited: DBWorker.terminate sets #closed and the
\* caller awaiting it goes on (shutdown's Promise.all, or #outsource's closed
\* branch, which then looks for handles still open)
TerminateDone(t) ==
  /\ immNow = <<>>
  /\ t \in terms
  /\ terms' = terms \ {t}
  /\ wClosed' = [wClosed EXCEPT ![t.w] = TRUE]
  /\ IF t.from = "outsource"
     THEN /\ workerShutdownComplete' =
               (workerShutdownComplete \/ NoOpenWorkers(wClosed'))
          /\ UNCHANGED shut
     ELSE /\ shut' = [shut EXCEPT ![t.call][t.w] = "terminated"]
          /\ UNCHANGED workerShutdownComplete
  /\ UNCHANGED <<size, queue, nextJobId, closed,
                 busy, inflight, awaiting, rtAlive, mailbox,
                 immNow, immNext, awaiter, submitResult,
                 assigned, handed, everLocked, lockedAt, nLocked,
                 settledBy, atShutdown>>

\* #waitForWorkerShutdown: the 10 ms interval sees #workerShutdownComplete
PollTick(k, w) ==
  /\ immNow = <<>>
  /\ k \in 1..Len(shut)
  /\ shut[k][w] = "poll"
  /\ workerShutdownComplete
  /\ shut' = [shut EXCEPT ![k][w] = "polled"]
  /\ UNCHANGED <<size, queue, nextJobId, closed, workerShutdownComplete,
                 busy, inflight, wClosed, awaiting, rtAlive, mailbox,
                 immNow, immNext, terms, awaiter, submitResult,
                 assigned, handed, everLocked, lockedAt, nLocked,
                 settledBy, atShutdown>>

\* the promise returned by the k-th shutdown() call has resolved
ShutdownResolved(k) == \A w \in Workers : shut[k][w] \in {"terminated", "polled"}

\* ------------------------------------------------------------------- Next
Next ==
  \/ Submit /\ UNCHANGED <<ioVars, txVars>>
  \/ RunImmediate /\ UNCHANGED <<ioVars, txVars>>
  \/ EnterCheckPhase /\ UNCHANGED <<ioVars, txVars>>
  \/ \E w \in Workers, err \in {NoError, OtherMsg, LockedMsg} :
        Post(w, err) /\ UNCHANGED Others
  \/ \E w \in Workers : Deliver(w) /\ UNCHANGED Others
  \/ Shutdown /\ UNCHANGED <<ioVars, txVars>>
  \/ \E t \in terms : TerminateDone(t) /\ UNCHANGED <<ioVars, txVars>>
  \/ \E k \in 1..Len(shut), w \in Workers : PollTick(k, w) /\ UNCHANGED <<ioVars, txVars>>

Spec == Init /\ [][Next]_vars

\* ----------------------------------------------------------------- faults
\* faulty variant of ErrorRejects: the 'error' handler never rejects the inflight job
ErrorRejectsNever(w) == FALSE

\* DBWorker 'error' handler: if (this.#inflight)
ErrorRejects(w) == inflight[w] # NoJob

\* DBWorker 'error' handler: this.#inflight.reject(err), for the job id
\* inflight on handle w
Rejection(w, id, err) == [w |-> w, id |-> id, error |-> err]

\* faulty variant of BusyAfterError: the 'error' handler leaves #busy as it is
BusyAfterErrorKept(b) == b

\* DBWorker 'error' handler: this.#busy = false
BusyAfterError(b) == FALSE

\* DBWorker 'error' handler (the thread of handle w died of an uncaught
\* error whose message is err), followed in the same turn by the continuation
\* of the #outsource call that awaited worker.run: its catch takes the error
\* as it takes the error of a reply (unshift on the contention sentinel,
\* reject otherwise), then the tail.  Messages posted to the dead thread are
\* lost; a reply the thread had posted is lost with it (lost) or still on its
\* way.
WorkerError(w, err, lost) ==
  LET entry == awaiting[w] IN
  /\ immNow = <<>>
  /\ rtAlive[w]
  /\ rtAlive' = [rtAlive EXCEPT ![w] = FALSE]
  /\ mailbox' = [mailbox EXCEPT ![w] = <<>>]
  /\ outbox' = IF lost THEN [outbox EXCEPT ![w] = NoReply] ELSE outbox
  /\ IF ErrorRejects(w)
     THEN /\ rejected' = rejected \cup {Rejection(w, inflight[w], err)}
          /\ inflight' = [inflight EXCEPT ![w] = NoJob]
          /\ awaiting' = [awaiting EXCEPT ![w] = NoEntry]
          /\ IF IsContention(err)
             THEN /\ OutsourceTail(<<entry>> \o queue)
                  /\ everLocked' = everLocked \cup {entry.id}
                  /\ lockedAt' = [lockedAt EXCEPT ![entry.id] = nextJobId]
                  /\ UNCHANGED awaiter
             ELSE /\ awaiter' = Settle(awaiter, entry.aw, err)
                  /\ OutsourceTail(queue)
                  /\ UNCHANGED <<everLocked, lockedAt>>
     ELSE UNCHANGED <<rejected, awaiter, inflight, awaiting, queue, immNext,
                      everLocked, lockedAt>>
  /\ busy' = [busy EXCEPT ![w] = BusyAfterError(busy[w])]
  /\ UNCHANGED <<size, nextJobId, closed, workerShutdownComplete, wClosed,
                 immNow, terms, shut, submitResult,
                 assigned, handed, nLocked, settledBy, atShutdown>>

\* a message reaches handle w that is no reply to its inflight job (no job is
\* inflight, or the id differs): the 'message' handler runs on it
StrayReply(w, id, err) ==
  /\ immNow = <<>>
  /\ inflight[w] # id
  /\ strays' = <<IF inflight[w] = NoJob THEN "idle" ELSE "mismatch">>
  /\ OnMessage(w, [id |-> id, error |-> err])
  /\ UNCHANGED <<size, nextJobId, closed, workerShutdownComplete,
                 wClosed, rtAlive, mailbox, immNow, terms, shut, submitResult,
                 assigned, handed, nLocked, atShutdown>>

\* the running dispatcher (shutdown() is not called) with runtimes that may
\* crash and with stray messages
NextFault ==
  \/ Submit /\ UNCHANGED <<ioVars, txVars>>
  \/ RunImmediate /\ UNCHANGED <<ioVars, txVars>>
  \/ EnterCheckPhase /\ UNCHANGED <<ioVars, txVars>>
  \/ \E w \in Workers, err \in {NoError, OtherMsg, LockedMsg} :
        Post(w, err) /\ UNCHANGED Others
  \/ \E w \in Workers : Deliver(w) /\ UNCHANGED Others
  \/ \E w \in Workers, err \in {CrashMsg, LockedMsg}, lost \in BOOLEAN :
        /\ WorkerError(w, err, lost)
        /\ UNCHANGED <<txVars, strings, values, compiled, split_sql,
                       opts, built, executed, received, posted, strays>>
  \/ \E w \in Workers, id \in JobIds, err \in {NoError, OtherMsg} :
        /\ StrayReply(w, id, err)
        /\ UNCHANGED <<txVars, strings, values, compiled, split_sql,
                       opts, built, executed, received, posted, rejected, outbox>>

\* the dispatcher after construction, for MaxFaultJobs jobs
InitFault ==
  /\ InitDispatcherFor(MaxFaultJobs)
  /\ InitIO
  /\ InitRuntime
  /\ InitDB(MaxFaultJobs)

SpecFault == InitFault /\ [][NextFault]_vars

\* ------------------------------------------------------- normal operation
\* a runtime answers its job with a result or with an error that is not the
\* contention sentinel
Answer == \E w \in Workers, err \in {NoError, OtherMsg} : Post(w, err)

\* the main thread receives a posted reply
Receive == \E w \in Workers : Deliver(w)

\* the dispatcher in normal operation: shutdown() is not called, no runtime
\* crashes, no reply is the contention sentinel
NextLive ==
  \/ Submit /\ UNCHANGED <<ioVars, txVars>>
  \/ RunImmediate /\ UNCHANGED <<ioVars, txVars>>
  \/ EnterCheckPhase /\ UNCHANGED <<ioVars, txVars>>
  \/ Answer /\ UNCHANGED Others
  \/ Receive /\ UNCHANGED Others

\* The event loop goes on: a scheduled callback runs, the check phase is
\* entered (weak fairness).  A runtime that has a job posts its reply and the
\* loop delivers it in its poll phase, which comes round between any two
\* check phases although replies cannot be delivered during one (strong
\* fairness).
SpecLive ==
  /\ Init
  /\ [][NextLive]_vars
  /\ WF_vars(RunImmediate /\ UNCHANGED <<ioVars, txVars>>)
  /\ WF_vars(EnterCheckPhase /\ UNCHANGED <<ioVars, txVars>>)
  /\ WF_vars(Answer /\ UNCHANGED Others)
  /\ SF_vars(Receive /\ UNCHANGED Others)

\* ------------------------------------------------------------------ close
\* DB.close(): return this.#dispatcher.shutdown()
close == shutdown

\* a call of close(), as long as the behaviour has calls left
Close ==
  /\ Len(shut) < MaxCloses
  /\ close

InitClose ==
  InitDispatcherFor(MaxCloseJobs) /\ InitIO /\ InitRuntime /\ InitDB(MaxCloseJobs)

\* the dispatcher of a DB that is closed more than once
NextClose ==
  \/ Submit /\ UNCHANGED <<ioVars, txVars>>
  \/ RunImmediate /\ UNCHANGED <<ioVars, txVars>>
  \/ EnterCheckPhase /\ UNCHANGED <<ioVars, txVars>>
  \/ \E w \in Workers, err \in {NoError, OtherMsg, LockedMsg} :
        Post(w, err) /\ UNCHANGED Others
  \/ \E w \in Workers : Deliver(w) /\ UNCHANGED Others
  \/ Close /\ UNCHANGED <<ioVars, txVars>>
  \/ \E t \in terms : TerminateDone(t) /\ UNCHANGED <<ioVars, txVars>>
  \/ \E k \in 1..Len(shut), w \in Workers : PollTick(k, w) /\ UNCHANGED <<ioVars, txVars>>

SpecClose == InitClose /\ [][NextClose]_vars

\* --------------------------------------------------------------- composer
\* Strings are sequences of characters.  Fragments are made of an ordinary
\* character and of the placeholder character.
Chars == {"a", "?"}
Values == {"v1", "v2"}
ArityMsg == "Query params and provided values are different sized lists"

\* what string concatenation makes of undefined
Undefined == <<"u", "n", "d", "e", "f", "i", "n", "e", "d">>

SeqsUpTo(S, n) == UNION {[1..k -> S] : k \in 0..n}
Fragments == SeqsUpTo(Chars, MaxFragLen)

\* strings[i] with the array index i of the code; past the end it is undefined
At(ss, i) == IF i + 1 <= Len(ss) THEN ss[i + 1] ELSE Undefined

\* strings.join('')
RECURSIVE Join(_)
Join(ss) == IF ss = <<>> THEN <<>> ELSE Head(ss) \o Join(Tail(ss))

\* for (let i = 0; i < values.length; i++) sql += '?' + strings[i + 1]
RECURSIVE CompileLoop(_, _, _, _)
CompileLoop(ss, vs, sql, i) ==
  IF i < Len(vs)
  THEN CompileLoop(ss, vs, sql \o <<"?">> \o At(ss, i + 1), i + 1)
  ELSE sql

\* SQLCompiler.compile of lib/SQLCompiler.js, the module DB.js imports
compile(ss, vs) ==
  IF Len(vs) = 0
  THEN [by |-> "DB", error |-> NoError, form |-> "string",
        sql |-> Join(ss), values |-> <<>>]
  ELSE [by |-> "DB", error |-> NoError, form |-> "string",
        sql |-> CompileLoop(ss, vs, At(ss, 0), 0), values |-> vs]

\* SQLCompiler.compile of the variant with the arity check, for an array of
\* fragments
compileChecked(ss, vs) ==
  IF Len(vs) # Len(ss) - 1
  THEN [by |-> "variant", error |-> ArityMsg, form |-> "none",
        sql |-> <<>>, values |-> <<>>]
  ELSE IF Len(vs) = 0
  THEN [by |-> "variant", error |-> NoError, form |-> "string",
        sql |-> Join(ss), values |-> <<>>]
  ELSE [by |-> "variant", error |-> NoError, form |-> "string",
        sql |-> CompileLoop(ss, vs, At(ss, 0), 0), values |-> vs]

\* SQLCompiler.compile of the variant, for a plain string: the sql is an
\* array that holds the string
compileString(s) ==
  [by |-> "variant", error |-> NoError, form |-> "array",
   sql |-> <<s>>, values |-> <<>>]

\* job.sql.split('?')
RECURSIVE Split(_)
Split(s) ==
  IF \E i \in 1..Len(s) : s[i] = "?"
  THEN LET i == CHOOSE i \in 1..Len(s) : s[i] = "?" /\ \A j \in 1..(i - 1) : s[j] # "?"
       IN <<SubSeq(s, 1, i - 1)>> \o Split(SubSeq(s, i + 1, Len(s)))
  ELSE <<s>>

\* WorkerRuntime.#handle, its first statement: the split of a string sql, an
\* array sql as it is, undefined for a job without sql
SplitSql(job) ==
  IF job.form = "string" THEN Split(job.sql)
  ELSE IF job.form = "array" THEN job.sql
  ELSE NotSplit

\* a query method is called with some fragments and values
InitCompose ==
  /\ InitDispatcher
  /\ InitDB(MaxJobs)
  /\ size = DBDefaultWorkers
  /\ strings \in SeqsUpTo(Fragments, MaxFragments)
  /\ values \in SeqsUpTo(Values, MaxValues)
  /\ compiled = NotCompiled
  /\ split_sql = NotSplit
  /\ InitRuntime

\* DB.run / DB.get / DB.all, one synchronous call: SQLCompiler.compile(strings,
\* values), then #submit of the job made of the compiled sql and values
Compile ==
  /\ compiled = NotCompiled
  /\ compiled' = compile(strings, values)
  /\ Submit
  /\ UNCHANGED <<txVars, rtVars, strings, values, split_sql>>

\* the same call with the variant of the composer in the place of
\* SQLCompiler.js, made with the fragments or (plain) with their text as one
\* plain string: a throw of compile leaves the call before #submit
CompileVariant(plain) ==
  /\ compiled = NotCompiled
  /\ compiled' = IF plain THEN compileString(Join(strings))
                          ELSE compileChecked(strings, values)
  /\ IF compiled'.error = NoError THEN Submit ELSE UNCHANGED dispVars
  /\ UNCHANGED <<txVars, rtVars, strings, values, split_sql>>

\* The 'message' handler of the WorkerRuntime of handle w receives the job at
\* the head of its mailbox (the job of the query method called), #handle
\* computes split_sql and hands it to the tagged statement, which succeeds or
\* fails with err, and the handler posts the reply
HandleSplit(w, err) ==
  /\ mailbox[w] # <<>>
  /\ LET job == Head(mailbox[w]) IN
       /\ received' = Append(received, [w |-> w, id |-> job])
       /\ posted' = Append(posted, [w |-> w, msg |-> RuntimeReply(job, err)])
  /\ split_sql' = SplitSql(compiled)
  /\ Post(w, err)
  /\ UNCHANGED <<txVars, strings, values, compiled, opts, built, executed, strays,
                 rejected>>

NextCompose ==
  \/ Compile
  \/ \E plain \in BOOLEAN : CompileVariant(plain)
  \/ \E w \in Workers, err \in {NoError, OtherMsg} : HandleSplit(w, err)
  \/ \E w \in Workers : Deliver(w) /\ UNCHANGED Others

SpecCompose == InitCompose /\ [][NextCompose]_vars

\* ------------------------------------------------------------ constructor
UnsupportedMsg == "worker_driver is not supported"

\* driver.replace('sqlite3', 'sqlite') on the driver names drawn
WorkerDriver(driver) ==
  CASE driver = "node:sqlite3" -> "node:sqlite"
    [] driver = "better-sqlite3" -> "better-sqlite"
    [] OTHER -> driver

\* the driver names the constructor accepts
SupportedDrivers == {"node:sqlite", "node:sqlite3", "better-sqlite", "better-sqlite3"}

\* #getWorkerPath: the switch on the replaced name selects a worker file
Supported(driver) == WorkerDriver(driver) \in {"better-sqlite", "node:sqlite"}

\* constructor, parameter default: workers = 1 when the option is undefined
WorkersParam(o) == IF o.workers.given = "omitted" THEN Number(DBDefaultWorkers) ELSE o.workers

\* constructor: const defaultWorkers = driver === "better-sqlite" ? 1
\*   : (filename === ':memory:' ? os.availableParallelism() : 2)
defaultWorkers(o) ==
  IF o.driver = "better-sqlite" THEN NativeDefaultWorkers
  ELSE IF o.filename = ":memory:" THEN o.parallelism ELSE FileDefaultWorkers

\* constructor: const size = workers ?? defaultWorkers
PoolSize(o) ==
  IF WorkersParam(o).given = "null" THEN defaultWorkers(o) ELSE WorkersParam(o).n

\* new DB(options): the pool size is computed, #getWorkerPath throws for an
\* unknown driver, the Dispatcher creates size handles
Construct ==
  /\ built = "no"
  /\ IF Supported(opts.driver)
     THEN /\ built' = "yes"
          /\ size' = PoolSize(opts)
          /\ busy' = [w \in 1..size' |-> FALSE]
          /\ inflight' = [w \in 1..size' |-> NoJob]
          /\ wClosed' = [w \in 1..size' |-> FALSE]
          /\ awaiting' = [w \in 1..size' |-> NoEntry]
          /\ rtAlive' = [w \in 1..size' |-> TRUE]
          /\ mailbox' = [w \in 1..size' |-> <<>>]
          /\ outbox' = [w \in 1..size' |-> NoReply]
          /\ db' = [w \in 1..size' |-> EmptyDb]
          /\ openBy' = [w \in 1..size' |-> NoCaller]
     ELSE /\ built' = UnsupportedMsg
          /\ UNCHANGED <<size, busy, inflight, wClosed, awaiting, rtAlive, mailbox,
                         outbox, db, openBy>>
  /\ UNCHANGED <<queue, nextJobId, closed, workerShutdownComplete,
                 immNow, immNext, terms, shut, awaiter, submitResult,
                 assigned, handed, everLocked, lockedAt, nLocked,
                 settledBy, atShutdown>>
  /\ UNCHANGED <<strings, values, compiled, split_sql, opts, executed, received, posted,
                 strays, rejected>>
  /\ UNCHANGED <<inTransaction, pc, inTx, branch, waitOn, current, held, outcome,
                 fnCalls, fnEnd, jobs, results, ranOn, ranIn>>

\* the constructor is about to be called with some options on some host
InitCtor ==
  /\ size = 0
  /\ InitPool(MaxJobs)
  /\ InitIO
  /\ InitDB(MaxJobs)
  /\ opts \in [driver : {"node:sqlite", "node:sqlite3", "better-sqlite",
                          "better-sqlite3", "other"},
                filename : {":memory:", "app.db"},
                workers : {Omitted, Null} \cup {Number(n) : n \in 1..MaxWorkers},
                parallelism : 1..MaxParallelism]
  /\ built = "no"
  /\ executed = NotExecuted
  /\ received = <<>>
  /\ posted = <<>>
  /\ strays = <<>>
  /\ rejected = {}
  /\ outbox = [w \in Workers |-> NoReply]

NextCtor == Construct

SpecCtor == InitCtor /\ [][NextCtor]_vars

\* ------------------------------------------------------------------- exec
ExecParamsMsg == "exec() does not support parameters"

\* faulty variant of ExecRejects: exec never refuses its values
ExecRejectsNever(vs) == FALSE

\* DB.exec: if (values.length > 0)
ExecRejects(vs) == Len(vs) > 0

\* DB.exec(strings, ...values): throws before #submit when values are given,
\* submits {method: 'exec', sql: strings.join('')} otherwise
Exec ==
  /\ IF ExecRejects(values)
     THEN /\ compiled' = [by |-> "exec", error |-> ExecParamsMsg, form |-> "none",
                          sql |-> <<>>, values |-> <<>>]
          /\ UNCHANGED dispVars
     ELSE /\ compiled' = [by |-> "exec", error |-> NoError, form |-> "string",
                          sql |-> Join(strings), values |-> <<>>]
          /\ Submit
  /\ UNCHANGED <<txVars, rtVars, strings, values, split_sql>>

\* #getWorkerPath, case "node:sqlite" of the replaced driver name: the
\* worker file is db.worker.js, whose runtime is the WorkerRuntime (the other
\* supported names start the BetterRuntime)
IsWorkerRuntime(driver) == WorkerDriver(driver) = "node:sqlite"

\* the text an exec job's handler passes to the engine.
\* WorkerRuntime.#handle (node:sqlite, node:sqlite3): this.#db.exec(split_sql[0]);
\* BetterRuntime.#handle: this.#db.exec(sql)
ExecText(driver, sql) ==
  IF IsWorkerRuntime(driver) THEN Split(sql)[1] ELSE sql

\* the 'message' handler of the runtime of handle w receives the exec job at
\* the head of its mailbox, hands its text to the engine, which succeeds or
\* fails with err, and posts the reply
ExecHandle(w, err) ==
  /\ mailbox[w] # <<>>
  /\ LET job == Head(mailbox[w]) IN
       /\ received' = Append(received, [w |-> w, id |-> job])
       /\ posted' = Append(posted, [w |-> w, msg |-> RuntimeReply(job, err)])
  /\ split_sql' = IF IsWorkerRuntime(opts.driver) THEN Split(compiled.sql) ELSE split_sql
  /\ executed' = ExecText(opts.driver, compiled.sql)
  /\ Post(w, err)
  /\ UNCHANGED <<txVars, strings, values, compiled, opts, built, strays, rejected>>

\* exec is called with some fragments and values on a DB of any supported
\* driver
InitExec ==
  /\ InitDispatcherFor(MaxExecs)
  /\ InitDB(MaxExecs)
  /\ strings \in SeqsUpTo(Fragments, MaxExecFragments)
  /\ values \in SeqsUpTo(Values, MaxValues)
  /\ compiled = NotCompiled
  /\ split_sql = NotSplit
  /\ opts \in [driver : SupportedDrivers, filename : {":memory:"},
                workers : {Number(size)}, parallelism : {size}]
  /\ built = "yes"
  /\ executed = NotExecuted
  /\ received = <<>>
  /\ posted = <<>>
  /\ strays = <<>>
  /\ rejected = {}
  /\ outbox = [w \in Workers |-> NoReply]

NextExec ==
  \/ Exec
  \/ RunImmediate /\ UNCHANGED <<ioVars, txVars>>
  \/ EnterCheckPhase /\ UNCHANGED <<ioVars, txVars>>
  \/ \E w \in Workers, err \in {NoError, OtherMsg, LockedMsg} : ExecHandle(w, err)
  \/ \E w \in Workers : Deliver(w) /\ UNCHANGED Others

SpecExec == InitExec /\ [][NextExec]_vars

\* several exec calls of one statement without values, on a DB of any
\* supported driver: what the runtimes receive and post
InitReplies ==
  /\ InitDispatcherFor(MaxRuntimeJobs)
  /\ InitDB(MaxRuntimeJobs)
  /\ strings \in {<<<<"a">>>>, <<<<"a">>, <<"?">>>>}
  /\ values = <<>>
  /\ compiled = NotCompiled
  /\ split_sql = NotSplit
  /\ opts \in [driver : SupportedDrivers, filename : {":memory:"},
                workers : {Number(size)}, parallelism : {size}]
  /\ built = "yes"
  /\ executed = NotExecuted
  /\ received = <<>>
  /\ posted = <<>>
  /\ strays = <<>>
  /\ rejected = {}
  /\ outbox = [w \in Workers |-> NoReply]

SpecReplies == InitReplies /\ [][NextExec]_vars

\* ----------------------------------------------------------- transactions
\* The application: setup code (caller 0) that creates the counter table and
\* its row with two awaited queries, then up to MaxCalls calls of
\* db.transaction(fn) with the callback
\*   async (tx) => { const current = await tx.get`SELECT value ...`;
\*                   await tx.run`UPDATE counter SET value = ${current.value + 1}`;
\*                   return current.value + 1; }
\* which may also throw an error of its own wherever it runs.
App == 0
Callers == 1..MaxCalls
UserErr == "user error"
NoTableMsg == "no such table: counter"
TableExistsMsg == "table counter already exists"
NestedBeginMsg == "cannot start a transaction within a transaction"
NoTxMsg == "no transaction is active"
NoRowMsg == "Cannot read properties of undefined (reading 'value')"

UnknownMethodMsg(m) == "Unknown DB method: " \o m

NoPayload == [caller |-> App, method |-> "none", sql |-> "", value |-> NoResult,
              steps |-> <<>>]
Payload(c, m, q, v) == [caller |-> c, method |-> m, sql |-> q, value |-> v,
                        steps |-> <<>>]

\* what the connection does with a job: WorkerRuntime.#handle on SQLite.
\* The result is the new database, the error thrown, the result replied.
EngineOk(d, r) == [db |-> d, error |-> NoError, result |-> r]
EngineErr(d, e) == [db |-> d, error |-> e, result |-> NoResult]

\* this.#db.exec('BEGIN IMMEDIATE') and this.#db.exec('BEGIN')
Begin(d) ==
  IF d.inTx THEN EngineErr(d, NestedBeginMsg)
  ELSE EngineOk([d EXCEPT !.inTx = TRUE,
                          !.snap = [table |-> d.table, value |-> d.value,
                                   more |-> d.more]], NoResult)

\* this.#db.exec('COMMIT')
Commit(d) ==
  IF ~d.inTx THEN EngineErr(d, NoTxMsg)
  ELSE EngineOk([d EXCEPT !.inTx = FALSE], NoResult)

\* this.#db.exec('ROLLBACK')
Rollback(d) ==
  IF ~d.inTx THEN EngineErr(d, NoTxMsg)
  ELSE EngineOk([d EXCEPT !.inTx = FALSE, !.table = d.snap.table,
                          !.value = d.snap.value, !.more = d.snap.more], NoResult)

\* the result of a run: {changes, lastInsertRowid}
Changes(n) == [changes |-> n]

\* the rows SELECT value FROM counter returns
Rows(d) == IF d.value = NoResult THEN <<>> ELSE <<d.value>> \o d.more

RECURSIVE Engine(_, _)
RECURSIVE RunSteps(_, _, _)

\* #runTransaction: BEGIN before the try; the steps and COMMIT inside it; the
\* catch rolls back, ignores an error of the rollback and throws the error
runTransaction(d, steps) ==
  LET b == Begin(d) IN
  IF b.error # NoError THEN b
  ELSE LET st == RunSteps(b.db, steps, NoResult) IN
       IF st.error # NoError THEN EngineErr(Rollback(st.db).db, st.error)
       ELSE LET c == Commit(st.db) IN
            IF c.error # NoError THEN EngineErr(Rollback(c.db).db, c.error)
            ELSE EngineOk(c.db, st.result)

Engine(d, job) ==
  CASE job.method = "beginTransaction" -> Begin(d)
    [] job.method = "commit" -> Commit(d)
    [] job.method = "rollback" -> Rollback(d)
    [] job.method = "exec" ->   \* CREATE TABLE counter
         IF d.table THEN EngineErr(d, TableExistsMsg)
         ELSE EngineOk([d EXCEPT !.table = TRUE], NoResult)
    [] job.method = "run" ->    \* INSERT the row / UPDATE counter SET value
         IF ~d.table THEN EngineErr(d, NoTableMsg)
         ELSE IF job.sql = "UPDATE"
         THEN IF d.value = NoResult THEN EngineOk(d, Changes(0))   \* no row
              ELSE EngineOk([d EXCEPT !.value = job.value,
                                      !.more = [i \in 1..Len(d.more) |-> job.value]],
                            Changes(Len(Rows(d))))   \* every row is set
         ELSE IF d.value = NoResult   \* INSERT: a row is added after the others
         THEN EngineOk([d EXCEPT !.value = job.value], Changes(1))
         ELSE EngineOk([d EXCEPT !.more = Append(@, job.value)], Changes(1))
    [] job.method = "get" ->    \* SELECT value FROM counter
         IF ~d.table THEN EngineErr(d, NoTableMsg)
         ELSE EngineOk(d, d.value)
    [] job.method = "all" ->    \* SELECT value FROM counter
         IF ~d.table THEN EngineErr(d, NoTableMsg)
         ELSE EngineOk(d, Rows(d))
    [] job.method = "transaction" -> runTransaction(d, job.steps)
    [] OTHER -> EngineErr(d, UnknownMethodMsg(job.method))

\* for (const step of steps) result = this.#handle(step), up to the first
\* step that throws
RunSteps(d, steps, r) ==
  IF steps = <<>> THEN EngineOk(d, r)
  ELSE LET out == Engine(d, Head(steps)) IN
       IF out.error # NoError THEN out
       ELSE RunSteps(out.db, Tail(steps), out.result)

\* the state of one caller after a step of it, and the job the step submits
Move(c) == [pc |-> pc[c], flag |-> inTransaction, held |-> held[c],
            current |-> current[c], outcome |-> outcome[c],
            fnCalls |-> fnCalls[c], fnEnd |-> fnEnd[c], job |-> NoPayload]

\* faulty variant of Rethrown: the error of a failed rollback replaces the caught one
RethrownLast(err, rollbackErr) == IF rollbackErr # NoError THEN rollbackErr ELSE err

\* transaction, catch: await rollback .catch(() => {}); ...; throw err
Rethrown(err, rollbackErr) == err

\* faulty variant of FlagAfterCatch: the catch block leaves #inTransaction set
FlagAfterCatchKept(flag) == flag

\* transaction, catch: this.#inTransaction = false
FlagAfterCatch(flag) == FALSE

\* faulty variant of IsNestedBranch: every call opens a transaction of its own
IsNestedNever(flag) == FALSE

\* transaction: if (inTx) return await fn(this)
IsNestedBranch(flag) == flag

\* transaction, catch (err): submit rollback
Catch(m, c, e) ==
  [m EXCEPT !.pc = "rollback", !.held = e, !.job = Payload(c, "rollback", "", NoResult)]

\* the callback's promise rejected with e
FnThrew(m, c, br, e) ==
  LET m1 == [m EXCEPT !.fnEnd = Threw(e)] IN
  IF br = "nested"
  THEN [m1 EXCEPT !.pc = "done", !.outcome = Threw(e)]
  ELSE Catch(m1, c, e)

\* the callback's promise resolved with v
FnReturned(m, c, br, v) ==
  LET m1 == [m EXCEPT !.fnEnd = Returned(v)] IN
  IF br = "nested"
  THEN [m1 EXCEPT !.pc = "done", !.outcome = Returned(v)]
  ELSE [m1 EXCEPT !.pc = "commit", !.job = Payload(c, "commit", "", NoResult)]

\* fn(this): the callback runs up to its first await. When it throws there,
\* its promise is rejected at once; a nested call (return await fn(this)),
\* which is still in the caller's synchronous run, returns its own promise
\* pending and rejects it in a later microtask
FnStart(m, c, br, throws) ==
  LET m1 == [m EXCEPT !.fnCalls = @ + 1] IN
  IF throws
  THEN IF br = "nested" THEN [m1 EXCEPT !.fnEnd = Threw(UserErr), !.pc = "settle"]
       ELSE FnThrew(m1, c, br, UserErr)
  ELSE [m1 EXCEPT !.pc = "get", !.job = Payload(c, "get", "SELECT", NoResult)]

\* the continuation of caller c after the job it awaited settled: ok tells
\* whether it resolved, e is the error it rejected with, r the result
Continue(c, ok, e, r, throws) ==
  LET m == Move(c)
      br == branch[c]
  IN CASE pc[c] = "create" ->
            IF ok THEN [m EXCEPT !.pc = "insert", !.job = Payload(c, "run", "INSERT", 0)]
            ELSE [m EXCEPT !.pc = "done", !.outcome = Threw(e)]
       [] pc[c] = "insert" ->
            IF ok THEN [m EXCEPT !.pc = "done", !.outcome = Returned(NoResult)]
            ELSE [m EXCEPT !.pc = "done", !.outcome = Threw(e)]
       [] pc[c] = "begin" ->
            IF ok THEN FnStart(m, c, br, throws) ELSE Catch(m, c, e)
       [] pc[c] = "get" ->
            IF ~ok THEN FnThrew(m, c, br, e)
            ELSE IF r = NoResult   \* no row: current is undefined
            THEN FnThrew([m EXCEPT !.current = r], c, br, NoRowMsg)
            ELSE IF throws THEN FnThrew([m EXCEPT !.current = r], c, br, UserErr)
            ELSE [m EXCEPT !.current = r, !.pc = "run",
                           !.job = Payload(c, "run", "UPDATE", r + 1)]
       [] pc[c] = "run" ->
            IF ~ok THEN FnThrew(m, c, br, e)
            ELSE IF throws THEN FnThrew(m, c, br, UserErr)
            ELSE FnReturned(m, c, br, current[c] + 1)
       [] pc[c] = "commit" ->
            IF ok THEN [m EXCEPT !.pc = "done", !.flag = FALSE,
                                 !.outcome = Returned(fnEnd[c].value)]
            ELSE Catch(m, c, e)
       [] pc[c] = "rollback" ->
            [m EXCEPT !.pc = "done", !.flag = FlagAfterCatch(inTransaction),
                      !.outcome = Threw(Rethrown(held[c], IF ok THEN NoError ELSE e))]

\* DB.#submit(job) by caller c, who then awaits the promise
TxSubmit(c, job) ==
  /\ Submit
  /\ submitResult' = "accepted"
  /\ jobs' = Append(jobs, job)
  /\ waitOn' = [waitOn EXCEPT ![c] = Len(assigned) + 1]

\* caller c goes to the state m, submitting the job of m if there is one
Apply(c, m) ==
  /\ pc' = [pc EXCEPT ![c] = m.pc]
  /\ inTransaction' = m.flag
  /\ held' = [held EXCEPT ![c] = m.held]
  /\ current' = [current EXCEPT ![c] = m.current]
  /\ outcome' = [outcome EXCEPT ![c] = m.outcome]
  /\ fnCalls' = [fnCalls EXCEPT ![c] = m.fnCalls]
  /\ fnEnd' = [fnEnd EXCEPT ![c] = m.fnEnd]
  /\ IF m.job.method # "none"
     THEN TxSubmit(c, m.job)
     ELSE /\ waitOn' = [waitOn EXCEPT ![c] = 0]
          /\ UNCHANGED <<dispVars, jobs>>
  /\ UNCHANGED <<ioVars, db, results, ranOn, openBy, ranIn>>

\* the job caller c awaits has settled: its continuation is a microtask of
\* the turn that delivered the reply
Ready(c) == waitOn[c] # 0 /\ awaiter[waitOn[c]] \notin {"none", "pending"}

\* the nested call c awaits the promise of its callback, which has settled:
\* its continuation is a microtask of the turn that made the call
Settling(c) == pc[c] = "settle"
MicrotaskPending == \E c \in 0..MaxCalls : Ready(c) \/ Settling(c)

\* the setup code starts: await db.exec`CREATE TABLE counter ...`
Setup ==
  /\ pc[App] = "idle"
  /\ Apply(App, [Move(App) EXCEPT !.pc = "create",
                                  !.job = Payload(App, "exec", "CREATE", NoResult)])
  /\ UNCHANGED <<inTx, branch>>

\* db.transaction(fn) is called (the calls are numbered in call order); it
\* runs up to its first await
Call(c, throws) ==
  /\ pc[App] = "done"
  /\ pc[c] = "idle"
  /\ \A b \in Callers : b < c => pc[b] # "idle"
  /\ ~ \E b \in 0..MaxCalls : Ready(b)
  /\ inTx' = [inTx EXCEPT ![c] = inTransaction]
  /\ IF IsNestedBranch(inTransaction)
     THEN /\ branch' = [branch EXCEPT ![c] = "nested"]
          /\ Apply(c, FnStart(Move(c), c, "nested", throws))
     ELSE /\ branch' = [branch EXCEPT ![c] = "outer"]
          /\ Apply(c, [Move(c) EXCEPT !.pc = "begin", !.flag = TRUE,
                                      !.job = Payload(c, "beginTransaction", "", NoResult)])

\* return await fn(this), continuation: the nested call c settles as its
\* callback did; microtasks run in the order they were queued
SettleNested(c) ==
  /\ Settling(c)
  /\ \A b \in Callers : b < c => ~Settling(b)
  /\ Apply(c, [Move(c) EXCEPT !.pc = "done", !.outcome = fnEnd[c]])
  /\ UNCHANGED <<inTx, branch>>

\* the continuation of caller c runs up to its next await or to its end
Resume(c, throws) ==
  /\ Ready(c)
  /\ LET a == waitOn[c] IN
       Apply(c, Continue(c, awaiter[a] = "resolved", awaiter[a], results[a], throws))
  /\ UNCHANGED <<inTx, branch>>

\* what becomes of the connection when a statement fails for a reason of its
\* own: most failures leave an open transaction open ("keep": a constraint),
\* some end it ("rollback": RAISE(ROLLBACK) in a trigger, a full disk, an I/O
\* error)
FailKinds == {"keep", "rollback"}
AfterFailure(d, kind) == IF kind = "rollback" THEN Rollback(d).db ELSE d

\* the runtime of handle w, in its own thread, handles the job at the head of
\* its mailbox on its connection and posts the reply; fail: the statement
\* succeeds or fails as the engine has it ("no"), or fails for a reason of its
\* own
TxHandle(w, fail) ==
  /\ mailbox[w] # <<>>
  /\ LET id == Head(mailbox[w])
         a == CHOOSE i \in 1..Len(assigned) : assigned[i] = id
         out == IF fail = "no" THEN Engine(db[w], jobs[a])
                ELSE EngineErr(AfterFailure(db[w], fail), OtherMsg)
     IN /\ fail # "no" => jobs[a].caller # App
        /\ fail = "rollback" => db[w].inTx
        /\ Post(w, out.error)
        /\ db' = [db EXCEPT ![w] = out.db]
        /\ results' = [results EXCEPT ![a] = out.result]
        /\ ranOn' = [ranOn EXCEPT ![a] = w]
        /\ ranIn' = [ranIn EXCEPT ![a] = IF db[w].inTx THEN openBy[w] ELSE NoCaller]
        /\ openBy' = [openBy EXCEPT ![w] =
                        IF ~out.db.inTx THEN NoCaller
                        ELSE IF ~db[w].inTx THEN jobs[a].caller ELSE @]
  /\ UNCHANGED <<strings, values, compiled, split_sql,
                 opts, built, executed, received, posted, strays, rejected>>
  /\ UNCHANGED <<inTransaction, pc, inTx, branch, waitOn, current, held,
                 outcome, fnCalls, fnEnd, jobs>>

\* the reply of the runtime of handle w is delivered, between the turns of
\* the callers
TxDeliver(w) ==
  /\ ~MicrotaskPending
  /\ Deliver(w)
  /\ UNCHANGED Others

\* setImmediate callbacks of the dispatcher, between the turns of the callers
TxRunImmediate ==
  /\ ~MicrotaskPending
  /\ RunImmediate
  /\ UNCHANGED <<ioVars, txVars>>

TxEnterCheckPhase ==
  /\ ~MicrotaskPending
  /\ EnterCheckPhase
  /\ UNCHANGED <<ioVars, txVars>>

InitTx ==
  /\ InitDispatcherFor(MaxTxJobs)
  /\ InitIO
  /\ InitRuntime
  /\ InitDB(MaxTxJobs)

\* transactions whose callbacks may throw and whose jobs may fail
NextTx ==
  \/ Setup
  \/ \E c \in Callers, throws \in BOOLEAN : Call(c, throws)
  \/ \E c \in Callers : SettleNested(c)
  \/ \E c \in 0..MaxCalls, throws \in BOOLEAN : Resume(c, throws)
  \/ \E w \in Workers, fail \in {"no"} \cup FailKinds : TxHandle(w, fail)
  \/ \E w \in Workers : TxDeliver(w)
  \/ TxRunImmediate
  \/ TxEnterCheckPhase

SpecTx == InitTx /\ [][NextTx]_vars

\* the counter workload: no callback throws, no statement fails on its own
NextCounter ==
  \/ Setup
  \/ \E c \in Callers : Call(c, FALSE)
  \/ \E c \in 0..MaxCalls : Resume(c, FALSE)
  \/ \E w \in Workers : TxHandle(w, "no")
  \/ \E w \in Workers : TxDeliver(w)
  \/ TxRunImmediate
  \/ TxEnterCheckPhase

SpecCounter == InitTx /\ [][NextCounter]_vars

\* the application calls db.get`SELECT value FROM counter` or db.all of the
\* same text (method) outside every transaction() call and lets the promise
\* be (it awaits it elsewhere)
Query(method) ==
  /\ pc[App] = "done"
  /\ ~MicrotaskPending
  /\ Cardinality({a \in 1..Len(jobs) :
                    jobs[a].caller = App /\ jobs[a].sql = "SELECT"}) < MaxQueries
  /\ Submit
  /\ submitResult' = "accepted"
  /\ jobs' = Append(jobs, Payload(App, method, "SELECT", NoResult))
  /\ UNCHANGED <<ioVars, inTransaction, pc, inTx, branch, waitOn, current, held,
                 outcome, fnCalls, fnEnd, db, results, ranOn, openBy, ranIn>>

\* the counter workload with other queries submitted concurrently
NextQuery ==
  \/ Setup
  \/ \E c \in Callers : Call(c, FALSE)
  \/ \E c \in 0..MaxCalls : Resume(c, FALSE)
  \/ \E w \in Workers : TxHandle(w, "no")
  \/ \E w \in Workers : TxDeliver(w)
  \/ \E method \in {"get", "all"} : Query(method)
  \/ TxRunImmediate
  \/ TxEnterCheckPhase

SpecQuery == InitTx /\ [][NextQuery]_vars

\* ============================================================== properties
Range(s) == {s[i] : i \in 1..Len(s)}
FirstPos(s, x) == CHOOSE i \in 1..Len(s) : s[i] = x /\ \A j \in 1..(i - 1) : s[j] # x

\* entries accepted by submit that wait for a handle: in the queue array or
\* held by a scheduled setImmediate callback
Waiting == Range(queue) \cup Range(immNow) \cup Range(immNext)
WaitingCount == Len(queue) + Len(immNow) + Len(immNext)

\* every entry the dispatcher holds, waiting or running
Entries == Waiting \cup {awaiting[w] : w \in {v \in Workers : awaiting[v] # NoEntry}}

\* the jobs of handle w at its runtime or answered by a reply on its way
Outstanding(w) == Len(mailbox[w]) + (IF outbox[w] # NoReply THEN 1 ELSE 0)

\* C1: every handle has at most one job outstanding (at its runtime, or
\* answered by a reply that is on its way), that job is the handle's inflight
\* job, and no awaiter was ever failed with
\* 'Worker is already busy' (run() is only called on handles that are not busy)
C1_OneInflightPerHandle ==
  /\ \A w \in Workers :
       /\ Outstanding(w) <= 1
       /\ mailbox[w] # <<>> => busy[w] /\ inflight[w] = Head(mailbox[w])
       /\ outbox[w] # NoReply => busy[w] /\ inflight[w] = outbox[w].id
       /\ busy[w] <=> inflight[w] # NoJob
  /\ \A a \in Awaiters : awaiter[a] # "Worker is already busy"

\* all handles are busy, handles have been reused, and a job waits for one
C1_Witness ==
  /\ \A w \in Workers : busy[w]
  /\ Len(handed) > size
  /\ Waiting # {}

\* C2: FIFO dispatch: if Y has been handed to a handle, every job X submitted
\* before Y was handed to a handle before Y, unless X or Y failed with the
\* contention sentinel
C2_FifoDispatch ==
  \A p \in 1..Len(assigned), q \in 1..Len(assigned) :
    LET x == assigned[p]
        y == assigned[q]
    IN (p < q /\ y \in Range(handed) /\ x \notin everLocked /\ y \notin everLocked)
         => (x \in Range(handed) /\ FirstPos(handed, x) < FirstPos(handed, y))

\* nothing is left to happen on the event loop: no job at a runtime, no
\* reply on its way, no scheduled callback, no pending thread exit, no interval that would resolve
Quiescent ==
  /\ \A w \in Workers : mailbox[w] = <<>> /\ outbox[w] = NoReply
  /\ immNow = <<>>
  /\ immNext = <<>>
  /\ terms = {}
  /\ ~ \E k \in 1..Len(shut), w \in Workers : shut[k][w] = "poll" /\ workerShutdownComplete

\* C3: graceful shutdown completes: once shutdown() was called and every job
\* in flight got its reply and the event loop has nothing left to run, every
\* handle is closed and every shutdown() promise has resolved
C3_ShutdownCompletes ==
  (closed /\ Quiescent) =>
     /\ \A w \in Workers : wClosed[w]
     /\ \A k \in 1..Len(shut) : ShutdownResolved(k)

\* C4: whenever the promise of a shutdown() call has resolved, every handle
\* has closed = true
C4_ResolvedImpliesAllClosed ==
  \A k \in 1..Len(shut) : ShutdownResolved(k) => \A w \in Workers : wClosed[w]

\* a shutdown() call made with one handle idle and one busy has resolved
C4_Witness ==
  \E k \in 1..Len(shut) :
    /\ ShutdownResolved(k)
    /\ \E w \in Workers : shut[k][w] = "polled"
    /\ \E w \in Workers : shut[k][w] = "terminated"

\* C5: once shutdown() has been called, every job submit accepted that was
\* never handed to a handle has its awaiter rejected with the shutting-down
\* error
C5_WaitingRejectedOnShutdown ==
  closed =>
    \A p \in 1..Len(assigned) :
      assigned[p] \notin Range(handed) => awaiter[p] = "DBDispatcher shutting down"

\* C6: no step taken once the dispatcher is closed hands a job to a handle or
\* consumes a job id; a submit made then fails with the closed error and
\* changes nothing else; a job is only ever posted to a handle that is open
C6_NoRunAfterShutdown ==
  [][ /\ closed =>
           /\ handed' = handed
           /\ \A w \in Workers : Len(mailbox'[w]) <= Len(mailbox[w])
           /\ nextJobId' = nextJobId
           /\ assigned' = assigned
           /\ submitResult' # submitResult =>
                /\ submitResult' = "DBDispatcher is closed"
                /\ UNCHANGED <<queue, busy, inflight, wClosed, awaiting, rtAlive,
                               immNow, immNext, terms, shut, awaiter,
                               workerShutdownComplete>>
      /\ \A w \in Workers :
           Len(mailbox'[w]) > Len(mailbox[w]) => ~wClosed[w] /\ ~closed
    ]_vars

\* after shutdown a submit was refused, and a job accepted before shutdown
\* was dropped without ever being passed to run()
C6_Witness ==
  /\ closed
  /\ submitResult = "DBDispatcher is closed"
  /\ Waiting = {}
  /\ \E p \in 1..Len(assigned) : assigned[p] \notin Range(handed)

\* C7: backpressure: never more than maxQueue accepted jobs wait for a
\* handle, and no submit is accepted while maxQueue jobs are waiting
C7_Backpressure ==
  [][ /\ WaitingCount' <= maxQueue
      /\ Len(assigned') > Len(assigned) => WaitingCount < maxQueue
    ]_vars

\* C8: no awaiter is ever rejected with 'database is locked'; the step that
\* delivers a contention reply schedules the very entry that was running
\* (same id, same awaiter) for a re-route and leaves every awaiter as it was,
\* that entry's awaiter pending; while such an entry waits for its retry its
\* awaiter stays pending
C8_ContentionNotSurfaced ==
  [][ /\ \A a \in Awaiters : awaiter'[a] # LockedMsg
      /\ \A w \in Workers :
           (outbox[w].error = LockedMsg /\ outbox'[w] = NoReply) =>
             /\ awaiting[w] # NoEntry
             /\ awaiting[w].id = outbox[w].id
             /\ immNext' = Append(immNext, awaiting[w])
             /\ awaiter' = awaiter
             /\ awaiter[awaiting[w].aw] = "pending"
      /\ \A e \in Waiting' : e.id \in everLocked' => awaiter'[e.aw] = "pending"
    ]_vars

\* a job whose reply carried the contention sentinel was later resolved
C8_Witness ==
  \E p \in 1..Len(assigned) : assigned[p] \in everLocked /\ awaiter[p] = "resolved"

\* C9: head-insertion ordering: while a job X re-enqueued after contention
\* waits for its retry, the only jobs handed to a handle are X itself or jobs
\* submitted before X observed the contention
C9_RetryBeforeLaterJobs ==
  [][ Len(handed') > Len(handed) =>
        \A x \in JobIds :
          lockedAt[x] # 0 =>
            LET y == handed'[Len(handed')]
            IN y = x \/ y < lockedAt[x]
    ]_vars

\* C10: ids are given in strictly increasing order, only accepted submits
\* consume an id, and every entry the dispatcher holds carries the id its
\* submit was given
C10_JobIdsIncrease ==
  /\ \A p \in 1..Len(assigned), q \in 1..Len(assigned) :
       p < q => assigned[p] < assigned[q]
  /\ \A p \in 1..Len(assigned) : assigned[p] < nextJobId
  /\ nextJobId = Len(assigned) + 1
  /\ \A e \in Entries : e.aw \in 1..Len(assigned) /\ assigned[e.aw] = e.id

\* a job was handed to a handle twice (re-routed after contention), a later
\* job was accepted, and a submit was refused after shutdown
C10_Witness ==
  /\ \E i \in 1..Len(handed), j \in 1..Len(handed) : i < j /\ handed[i] = handed[j]
  /\ Len(assigned) >= 2
  /\ submitResult = "DBDispatcher is closed"

\* a step in which the thread of handle w dies of an error (terminate() calls
\* are recorded in terms, a crash is not)
CrashStep(w) == rtAlive[w] /\ ~rtAlive'[w] /\ terms' = terms

\* handle w has had a fatal error and was not terminated since
Crashed(w) == ~rtAlive[w] /\ ~wClosed[w] /\ \A t \in terms : t.w # w

\* C11: an awaiter that receives a result or an error receives it in a step
\* that delivers a reply carrying its own job's id to the handle holding the
\* job, or in a step in which the handle holding the job has a fatal error;
\* stray messages settle nothing
C11_ReplyCorrelation ==
  [][\A a \in Awaiters :
       (awaiter[a] = "pending" /\ awaiter'[a] \in {"resolved", OtherMsg, CrashMsg})
       => \E w \in Workers :
            /\ awaiting[w].aw = a
            /\ inflight[w] = assigned[a]
            /\ IF awaiter'[a] = CrashMsg
               THEN CrashStep(w) /\ settledBy'[a] = NoJob
               ELSE settledBy'[a] = assigned[a]]_vars

\* two jobs, one of them retried after contention, each settled by the reply
\* that carries its own id
C11_Witness ==
  \E a, b \in Awaiters :
    /\ a # b
    /\ awaiter[a] = "resolved" /\ settledBy[a] = assigned[a]
    /\ awaiter[b] = OtherMsg /\ settledBy[b] = assigned[b]
    /\ assigned[a] \in everLocked

\* C12: when the runtime of a handle crashes with a job inflight, the handle
\* rejects that job's promise with the crash error, is left not busy with
\* nothing inflight, and the job no longer waits on the handle; the rejection
\* reaches the job's awaiter as every rejection of a handle does (the awaiter
\* is rejected with the crash error, unless that error reads as the
\* contention sentinel, which the Dispatcher answers by re-queueing the job)
\* and no other awaiter changes; with nothing inflight only busy is written:
\* nothing is rejected and no awaiter changes
C12_FatalError ==
  [][\A w \in Workers :
       CrashStep(w) =>
         /\ ~busy'[w]
         /\ inflight'[w] = NoJob
         /\ IF inflight[w] # NoJob
            THEN \E err \in {CrashMsg, LockedMsg} :
                   /\ rejected' = rejected \cup {Rejection(w, inflight[w], err)}
                   /\ Rejection(w, inflight[w], err) \notin rejected
                   /\ awaiting[w].id = inflight[w]
                   /\ awaiting'[w] = NoEntry
                   /\ awaiter[awaiting[w].aw] = "pending"
                   /\ awaiter' = IF IsContention(err) THEN awaiter
                                 ELSE [awaiter EXCEPT ![awaiting[w].aw] = err]
            ELSE /\ rejected' = rejected
                 /\ awaiter' = awaiter
                 /\ inflight' = inflight /\ awaiting' = awaiting]_vars

\* one runtime crashed with a job inflight, whose awaiter has the crash
\* error, the other crashed idle
C12_Witness ==
  /\ size = DispatcherDefaultSize
  /\ \A w \in Workers : ~rtAlive[w] /\ ~busy[w] /\ inflight[w] = NoJob
  /\ Len(assigned) = 1
  /\ rejected = {Rejection(1, assigned[1], CrashMsg)}
  /\ awaiter[1] = CrashMsg

\* C13: a handle that has had a fatal error is never handed another job
C13_CrashedHandleGetsNoJob ==
  [][\A w \in Workers : (Crashed(w) /\ ~busy[w]) => ~busy'[w]]_vars

\* C18: every job that was in flight when shutdown() was called has its
\* awaiter settled with its own outcome once its runtime has replied and the
\* event loop has nothing left to run
C18_InflightAtShutdownSettled ==
  (closed /\ Quiescent) =>
     \A a \in atShutdown : awaiter[a] \in {"resolved", OtherMsg}

\* number of placeholder characters in a string
RECURSIVE CountPlaceholders(_)
CountPlaceholders(s) ==
  IF s = <<>> THEN 0
  ELSE (IF Head(s) = "?" THEN 1 ELSE 0) + CountPlaceholders(Tail(s))

\* C19: for fragments and values with |fragments| = |values| + 1 the composed
\* sql has exactly |values| placeholders, the runtime's split at the
\* placeholder gives back the fragments, and the values come back unchanged
C19_ComposeSplitRoundTrip ==
  (compiled.by # "none" /\ compiled.error = NoError /\ split_sql # NotSplit
     /\ compiled.form = "string"
     /\ Len(strings) = Len(values) + 1)
  => /\ CountPlaceholders(compiled.sql) = Len(values)
     /\ split_sql = strings
     /\ compiled.values = values

\* C20: the composer the query methods call returns no (sql, values) pair
\* when |fragments| - 1 differs from |values|
C20_ArityCheck ==
  (compiled.by = "DB" /\ Len(strings) - 1 # Len(values)) => compiled.error # NoError

\* every transaction() call has settled and the dispatcher has nothing to do
AllSettled ==
  /\ \A c \in Callers : pc[c] = "done"
  /\ \A w \in Workers : ~busy[w]
  /\ immNow = <<>> /\ immNext = <<>>

\* the calls were made one after the other in one turn: each call submits one
\* job before its first await, and the setup submitted two
StartedTogether ==
  \A c \in Callers : Len(jobs) >= 2 + c /\ jobs[2 + c].caller = c

\* C15: transaction() calls started together are serialized: the counter
\* that a query made afterwards reads equals the number of calls, and the
\* calls return 1, 2, ... in call order, for pool sizes 1 and 2
C15_ConcurrentTransactionsSerialized ==
  (AllSettled /\ StartedTogether) =>
     /\ db[getIdleWorker].value = MaxCalls
     /\ \A c \in Callers : outcome[c] = Returned(c)

\* the jobs call c submitted with method m (as positions in jobs)
JobsOf(c, m) == {a \in 1..Len(jobs) : jobs[a].caller = c /\ jobs[a].method = m}
QueriesOf(c) == JobsOf(c, "get") \cup JobsOf(c, "run")

\* the part of the protocol that C14 and its amended form share: the callback
\* of a non-nested call is invoked only after the call's beginTransaction job
\* resolved and before any job of the callback is submitted; a callback that
\* threw is followed by a rollback job and no commit job, and the caller
\* receives the callback's error whatever the rollback job's reply was
TxProtocolCommon(c) ==
  /\ fnCalls[c] > 0 =>
       \E b \in JobsOf(c, "beginTransaction") :
         awaiter[b] = "resolved" /\ \A a \in QueriesOf(c) : b < a
  /\ (pc[c] = "done" /\ fnEnd[c].kind = "threw") =>
       /\ JobsOf(c, "rollback") # {}
       /\ JobsOf(c, "commit") = {}
       /\ outcome[c] = Threw(fnEnd[c].error)

\* C14 as stated: for a non-nested call, begin is awaited before the
\* callback; if the callback completes, a commit job is submitted after the
\* callback's jobs, no rollback job is submitted and the caller receives the
\* callback's value; if it throws, rollback and no commit, and the caller
\* receives the original error
C14_TransactionProtocol ==
  \A c \in Callers :
    branch[c] = "outer" =>
      /\ TxProtocolCommon(c)
      /\ (pc[c] = "done" /\ fnEnd[c].kind = "returned") =>
           /\ \E k \in JobsOf(c, "commit") : \A a \in QueriesOf(c) : a < k
           /\ JobsOf(c, "rollback") = {}
           /\ outcome[c] = Returned(fnEnd[c].value)

\* C14 amended: as C14, but when the callback completes the absence of a
\* rollback job and the return of the callback's value depend on the commit
\* job: if the commit job fails, a rollback job is submitted after it and the
\* caller receives the commit error
C14_TransactionProtocolAmended ==
  \A c \in Callers :
    branch[c] = "outer" =>
      /\ TxProtocolCommon(c)
      /\ (pc[c] = "done" /\ fnEnd[c].kind = "returned") =>
           \E k \in JobsOf(c, "commit") :
             /\ \A a \in QueriesOf(c) : a < k
             /\ IF awaiter[k] = "resolved"
                THEN /\ JobsOf(c, "rollback") = {}
                     /\ outcome[c] = Returned(fnEnd[c].value)
                ELSE /\ \E r \in JobsOf(c, "rollback") : k < r
                     /\ outcome[c] = Threw(awaiter[k])

\* one call committed and returned its callback's value; the callback of
\* another call returned, its commit job failed, the rollback job submitted
\* after it failed too, and the caller received the commit error
C14_Witness ==
  \E c, d \in Callers :
    /\ branch[c] = "outer" /\ pc[c] = "done" /\ outcome[c].kind = "returned"
    /\ branch[d] = "outer" /\ pc[d] = "done" /\ fnEnd[d].kind = "returned"
    /\ \E k \in JobsOf(d, "commit"), r \in JobsOf(d, "rollback") :
         /\ awaiter[k] \notin {"resolved", "pending"}
         /\ awaiter[r] \notin {"resolved", "pending"}
         /\ k < r
         /\ outcome[d] = Threw(awaiter[k])

\* the callback of call c has been invoked and its promise has not settled
CallbackRunning(c) == pc[c] \in {"get", "run"}

\* C16: inTransaction is false before any transaction() call, true whenever
\* a transaction callback is running, and false once every non-nested
\* transaction() call made has settled
C16_InTransactionFlag ==
  /\ (\A c \in Callers : pc[c] = "idle") => ~inTransaction
  /\ (\E c \in Callers : CallbackRunning(c)) => inTransaction
  /\ (\A c \in Callers : branch[c] = "outer" => pc[c] = "done") => ~inTransaction

\* C17: a transaction() call made while inTransaction is true invokes the
\* callback in the call itself, never submits a beginTransaction, commit or
\* rollback job, never changes inTransaction, and settles as its callback did
C17_NestedTransaction ==
  [][\A c \in Callers :
       /\ (pc[c] = "idle" /\ pc'[c] # "idle" /\ inTransaction) => fnCalls'[c] = 1
       /\ (pc'[c] # pc[c] /\ inTx'[c]) =>
            /\ inTransaction' = inTransaction
            /\ Len(jobs') > Len(jobs) => jobs'[Len(jobs')].method \in {"get", "run"}
            /\ pc'[c] = "done" => (outcome'[c] = fnEnd'[c] /\ fnEnd'[c].kind # "none")]_vars

\* a call made while inTransaction was true has run its callback's two
\* queries and returned
C17_Witness ==
  \E c \in Callers :
    /\ inTx[c] /\ pc[c] = "done" /\ outcome[c].kind = "returned"
    /\ JobsOf(c, "get") # {} /\ JobsOf(c, "run") # {}
\* a shutdown() call is made in this step
ShutdownCalled == Len(shut') = Len(shut) + 1

\* every handle is idle and no accepted job waits for a handle
IdleAndEmpty == Waiting = {} /\ \A w \in Workers : ~busy[w]

\* r records a shutdown() call made with every handle idle: the call awaits
\* the termination of every handle and polls for none
CleanCall(r) == \A w \in Workers : r[w] \in {"terminate", "terminated"}

\* r records a shutdown() call whose promise has resolved
Resolved(r) == \A w \in Workers : r[w] \in {"terminated", "polled"}

\* C22: a shutdown()/close() call made while every handle is idle and no job
\* waits terminates every handle and waits for no job (it polls for none);
\* once all its terminations are done the call has resolved with every handle
\* closed; this also holds for a close() on the already closed DB; and no
\* step reopens a handle or the Dispatcher
C22_CleanClose ==
  [][
     /\ (ShutdownCalled /\ IdleAndEmpty) =>
          /\ closed'
          /\ CleanCall(shut'[Len(shut')])
          /\ \A w \in Workers :
                [w |-> w, from |-> "shutdown", call |-> Len(shut')] \in terms'
     /\ \A k \in 1..Len(shut') :
           (CleanCall(shut'[k]) /\ ~\E t \in terms' : t.from = "shutdown" /\ t.call = k) =>
              (Resolved(shut'[k]) /\ closed' /\ \A w \in Workers : wClosed'[w])
     /\ closed => closed'
     /\ \A w \in Workers : wClosed[w] => wClosed'[w]
  ]_vars

\* a clean close() has resolved, and a second close() on the closed DB has
\* resolved too, after a job had been done
C22_Witness ==
  /\ Len(shut) = 2
  /\ CleanCall(shut[1]) /\ ShutdownResolved(1)
  /\ CleanCall(shut[2]) /\ ShutdownResolved(2)
  /\ closed
  /\ \A w \in Workers : wClosed[w]
  /\ \E a \in Awaiters : awaiter[a] = "resolved"

\* C26: every terminate() call, the ones of shutdown() and the ones of the
\* closed branch of #outsource, is made on a handle that is not busy and has
\* no inflight job
C26_TerminateOnlyIdle ==
  [][\A t \in terms' \ terms : ~busy[t.w] /\ inflight[t.w] = NoJob]_vars

\* shutdown() terminated the idle handle and polled for the busy one, which
\* the closed branch of #outsource terminated after its job was done
C26_Witness ==
  \E k \in 1..Len(shut), w, v \in Workers :
    /\ shut[k][w] = "terminated"
    /\ shut[k][v] \in {"poll", "polled"}
    /\ wClosed[v]

\* C21: exec called with one or more values throws before anything is
\* submitted: the call fails with the parameters error, and no step of a
\* behaviour in which exec is only called with values changes anything of
\* the Dispatcher (no id consumed, nothing queued, nothing handed over)
C21_ExecWithValuesRejected ==
  [][Len(values) > 0 =>
       /\ UNCHANGED dispVars
       /\ compiled' # compiled => compiled'.error = ExecParamsMsg]_vars

\* exec was called with values and threw
C21_Witness ==
  /\ Len(values) > 0
  /\ compiled.by = "exec"
  /\ compiled.error = ExecParamsMsg
  /\ nextJobId = 1

\* C28: the runtimes post exactly one reply per job message they received,
\* with the id of that message, before they receive the next one, and
\* nothing else
C28_RuntimeReplyDiscipline ==
  /\ Len(posted) = Len(received)
  /\ \A i \in 1..Len(posted) :
       /\ posted[i].w = received[i].w
       /\ posted[i].msg.id = received[i].id
       /\ received[i].id # NoJob

\* a runtime replied with an error to a failing job and then handled and
\* answered another job
C28_Witness ==
  \E i, j \in 1..Len(posted) :
    /\ i < j
    /\ posted[i].w = posted[j].w
    /\ posted[i].msg.error = OtherMsg
    /\ posted[j].msg.error = NoError

\* C29: for exec, the text a runtime hands to the engine is the complete sql
\* text of the job
C29_ExecRunsWholeText ==
  executed # NotExecuted => executed = compiled.sql

\* the driver is the native binding
Native(driver) == driver \in {"better-sqlite", "better-sqlite3"}

\* C23: a DB constructed without a workers option has 1 handle if the driver
\* is the native binding, otherwise the host's available parallelism if the
\* filename is ':memory:', otherwise 2; a workers option given is the size
C23_DefaultPoolSize ==
  built = "yes" =>
    size = IF opts.workers.given = "number" THEN opts.workers.n
           ELSE IF Native(opts.driver) THEN 1
           ELSE IF opts.filename = ":memory:" THEN opts.parallelism
           ELSE 2

\* C30: all the jobs issued by one transaction() call that a runtime has
\* handled were handled by the runtime of one and the same handle
C30_TransactionAffinity ==
  \A c \in Callers :
    \A a, b \in 1..Len(jobs) :
      (jobs[a].caller = c /\ jobs[b].caller = c
         /\ ranOn[a] # NoWorker /\ ranOn[b] # NoWorker) => ranOn[a] = ranOn[b]

\* C24: for every handle, busy holds exactly when an inflight job is present
C24_BusyIffInflight ==
  \A w \in Workers : busy[w] <=> inflight[w] # NoJob

\* one job died with its runtime, whose handle is idle without an inflight
\* job, while another job is in flight
C24_Witness ==
  /\ \E a \in Awaiters : awaiter[a] = CrashMsg
  /\ \E w \in Workers : ~rtAlive[w] /\ ~busy[w] /\ inflight[w] = NoJob
  /\ \E w \in Workers : busy[w] /\ inflight[w] # NoJob

\* C25: the delivery of a stray message (no job inflight, or another id)
\* leaves busy, inflight and closed of every handle unchanged, settles no
\* awaiter, and moves no job
C25_StrayReplyIgnored ==
  [][strays' # strays =>
       UNCHANGED <<busy, inflight, wClosed, awaiter, awaiting, queue, immNext>>]_vars

\* a message with another id was delivered to a handle whose job is still in
\* flight and unanswered
C25_Witness ==
  /\ strays = <<"mismatch">>
  /\ \E w \in Workers : busy[w] /\ awaiter[awaiting[w].aw] = "pending"

\* the entries the dispatcher holds when its queue is q, the scheduled
\* callbacks hold a and b, and the handles run aw
Held(q, a, b, aw) ==
  (Range(q) \cup Range(a) \cup Range(b) \cup {aw[w] : w \in DOMAIN aw}) \ {NoEntry}

\* C27: when the reply a runtime posted with an error that is not the
\* contention sentinel is delivered, the awaiter of the job is rejected with that error
\* and the dispatcher holds the job no more; an awaiter that has settled
\* keeps its outcome and its job is not held (so never dispatched) again;
\* no job is inflight on two handles
C27_ErrorSettlesOnce ==
  [][
     /\ \A w \in Workers :
          (outbox[w] # NoReply /\ outbox'[w] = NoReply) =>
            LET entry == awaiting[w] IN
            outbox[w].error \notin {NoError, LockedMsg} =>
              /\ entry # NoEntry
              /\ awaiter'[entry.aw] = outbox[w].error
              /\ entry \notin Held(queue', immNow', immNext', awaiting')
     /\ \A a \in Awaiters :
           awaiter[a] \notin {"none", "pending"} =>
             /\ awaiter'[a] = awaiter[a]
             /\ \A e \in Held(queue', immNow', immNext', awaiting') : e.aw # a
     /\ \A w, v \in Workers :
           (w # v /\ inflight'[w] # NoJob) => inflight'[w] # inflight'[v]
  ]_vars

\* a job that was retried after contention failed with another error, which
\* its awaiter got, while the other job was answered
C27_Witness ==
  /\ \E a \in Awaiters : awaiter[a] = OtherMsg /\ assigned[a] \in everLocked
  /\ \E a \in Awaiters : awaiter[a] = "resolved"
  /\ \E i \in 1..Len(posted) : posted[i].msg.error = OtherMsg

\* C31: every job a connection executed while a transaction was open on it
\* was issued by the transaction() call whose beginTransaction opened that
\* transaction
C31_TransactionIsolation ==
  \A a \in 1..Len(jobs) :
    ranIn[a] # NoCaller => jobs[a].caller = ranIn[a]

\* the awaiter a has been rejected
Failed(a) == awaiter[a] \notin {"none", "pending", "resolved"}

\* C32: when a non-nested transaction() call settles after its
\* beginTransaction job failed, the callback was never invoked, no commit job
\* was submitted and the caller receives the beginTransaction error; when it
\* settles after its commit job failed, the caller receives the commit error;
\* in both cases inTransaction is false when the call settles
C32_BeginOrCommitFails ==
  [][\A c \in Callers :
       (branch[c] = "outer" /\ pc[c] # "done" /\ pc'[c] = "done") =>
          /\ \A b \in JobsOf(c, "beginTransaction") :
                Failed(b) =>
                  /\ fnCalls'[c] = 0
                  /\ JobsOf(c, "commit") = {}
                  /\ jobs' = jobs
                  /\ outcome'[c] = Threw(awaiter[b])
                  /\ ~inTransaction'
          /\ \A k \in JobsOf(c, "commit") :
                Failed(k) =>
                  /\ outcome'[c] = Threw(awaiter[k])
                  /\ ~inTransaction']_vars

\* one call has settled with the error of its beginTransaction job, without
\* its callback having run, and another with the error of its commit job
C32_Witness ==
  /\ ~inTransaction
  /\ \E c \in Callers :
       /\ branch[c] = "outer" /\ pc[c] = "done" /\ fnCalls[c] = 0
       /\ \E b \in JobsOf(c, "beginTransaction") : Failed(b) /\ outcome[c] = Threw(awaiter[b])
  /\ \E c \in Callers :
       /\ branch[c] = "outer" /\ pc[c] = "done"
       /\ \E k \in JobsOf(c, "commit") : Failed(k) /\ outcome[c] = Threw(awaiter[k])

\* C33: in normal operation every job accepted by submit is eventually
\* handed to a handle and its awaiter is eventually resolved or rejected
C33_NoJobLost ==
  \A a \in 1..MaxJobs :
    (awaiter[a] = "pending") ~>
       (awaiter[a] \in {"resolved", OtherMsg} /\ assigned[a] \in Range(handed))

\* MaxJobs jobs were accepted, some of them in one turn so that they waited
\* for a handle, and all of them have been handed over and answered
C33_Witness ==
  /\ Len(assigned) = MaxJobs
  /\ Len(handed) = MaxJobs
  /\ \A a \in Awaiters : awaiter[a] \in {"resolved", OtherMsg}
  /\ handed # assigned

====
